---- MODULE Spec2Model ----
(***************************************************************************)
(* Model of the TodoList component (src/src/components/TodoList.tsx).      *)
(*                                                                         *)
(* The component holds three pieces of React state (tasks, newTask,        *)
(* editingId) and talks to a remote "tasks" table through four queries.    *)
(* Every async handler is split at its `await`: the part before the await  *)
(* issues a request, the table executes it at some later moment, and the   *)
(* part after the await runs when the response is delivered.  Requests of  *)
(* different handler invocations may be in flight together and may be      *)
(* executed and answered in any order.                                     *)
(*                                                                         *)
(* Text is a sequence of one-character strings so that String.trim() can   *)
(* be modelled by what it does.                                            *)
(***************************************************************************)
EXTENDS Integers, Sequences, FiniteSets, TLC

VARIABLES
    mounted,    \* the mount effect has run
    tasks,      \* useState<Task[]>            : sequence of Task
    newTask,    \* useState({title, desc})     : the draft fields
    editingId,  \* useState<number | null>     : Null or a task id
    calls,      \* remote calls in flight, in the order they were issued
    db,         \* the rows of the remote "tasks" table
    nextId,     \* the table's id generator
    clock,      \* the table's clock (source of created_at): the rows created so far
    toast,      \* the notifications emitted by the last step
    lastAct,    \* the handler (or response continuation) that ran last
    newest,     \* payload of the latest-issued list call answered with success
    surplus     \* list calls issued so far minus successful mutations handled

vars == <<mounted, tasks, newTask, editingId, calls, db, nextId, clock,
          toast, lastAct, newest, surplus>>

----------------------------------------------------------------------------
(* Bounds of the model *)

\* at most this many handler invocations started by the user are awaiting
\* a response (the list call of the mount effect is not counted)
MaxPending == 1
\* the table creates at most this many rows over its life, the row it holds
\* at the start included; an insert sent to a full table can only fail
MaxRows == 1

\* `null` of `number | null`
Null == -1

\* the table's id generator may start at either of these values
FirstIds == {0, 1}

\* the texts a user types into the two form fields
Texts == { <<>>, <<" ">>, <<"a">> }

\* the row the table holds when the component is mounted
SeedTitle == <<"a">>
SeedDesc == <<" ", "b">>

\* error.message values the remote service answers with
Messages == {"network error"}

----------------------------------------------------------------------------
(* Values *)

Task(id, title, desc, created) ==
    [id |-> id, title |-> title, desc |-> desc, created_at |-> created]

NoRow == Task(Null, <<>>, <<>>, Null)

EmptyDraft == [title |-> <<>>, desc |-> <<>>]

Toast(kind, text, msg) == [kind |-> kind, text |-> text, msg |-> msg]

\* A remote call.  op, id, title, desc are what is sent; st, msg, data are
\* the answer.  A list call issued by the refresh after a mutation carries
\* that mutation's op as its cause and that mutation's id, title and desc.
\* arg, sub, pre and quiet are bookkeeping used to state properties:
\*   arg   the editingId (submit) or the id argument (delete) the handler
\*         invocation started with,
\*   sub   the draft the handler invocation started with,
\*   pre   the row an update found in the table (NoRow if none),
\*   quiet no user action has happened since the handler invocation started,
\*   alone quiet, and no other handler invocation was awaiting a response
\*         when this one started,
\*   stale a list call issued after this one has been answered with success
\*         and handled.
Call(op, cause, id, title, desc) ==
    [op |-> op, cause |-> cause, id |-> id, title |-> title, desc |-> desc,
     st |-> "sent", msg |-> "", data |-> <<>>,
     arg |-> Null, sub |-> EmptyDraft, pre |-> NoRow, quiet |-> TRUE,
     alone |-> TRUE, stale |-> FALSE]

NoCall == [Call("none", "none", Null, <<>>, <<>>) EXCEPT !.st = "none"]

\* The step taken last: the handler or continuation, the call it issued,
\* executed or was answered with (NoCall if none), its id argument, and a
\* flag: validation passed (handleSubmit), confirmed (handleDelete), the
\* answer was a success (fetchDone, submitDone, deleteDone), the step
\* directly followed handleEdit (cancelEdit).
Act(name, call, id, ok) == [name |-> name, call |-> call, id |-> id, ok |-> ok]

----------------------------------------------------------------------------
(* Pure helpers *)

IsSpace(c) == c = " "

RECURSIVE TrimStart(_)
TrimStart(s) ==
    IF s # <<>> /\ IsSpace(Head(s)) THEN TrimStart(Tail(s)) ELSE s

RECURSIVE TrimEnd(_)
TrimEnd(s) ==
    IF s # <<>> /\ IsSpace(s[Len(s)]) THEN TrimEnd(SubSeq(s, 1, Len(s) - 1)) ELSE s

\* String.prototype.trim
TrimId(s) == s
Trim(s) == TrimEnd(TrimStart(s))

\* JavaScript truthiness of a string and of a `number | null`
TruthyText(s) == s # <<>>
TruthyId(x) == x # Null /\ x # 0

\* the negation of the condition of the guard at the top of handleSubmit
ValidTitleOnly(d) == TruthyText(Trim(d.title))
Valid(d) == TruthyText(Trim(d.title)) /\ TruthyText(Trim(d.desc))

\* .order("created_at", { ascending: true })
RECURSIVE OrderByCreatedAt(_)
OrderByCreatedAt(rows) ==
    IF rows = {} THEN <<>>
    ELSE LET first == CHOOSE r \in rows : \A q \in rows : r.created_at <= q.created_at
         IN  <<first>> \o OrderByCreatedAt(rows \ {first})

Remove(cs, i) == SubSeq(cs, 1, i - 1) \o SubSeq(cs, i + 1, Len(cs))

\* a user action happened: no call in flight is undisturbed any more
Disturb(cs) ==
    [i \in DOMAIN cs |-> [cs[i] EXCEPT !.quiet = FALSE, !.alone = FALSE]]

\* the calls in flight without the bookkeeping of Disturb
Sent(cs) ==
    [i \in DOMAIN cs |-> [cs[i] EXCEPT !.quiet = TRUE, !.alone = TRUE]]

\* the handler invocations of the user that are awaiting a response
Pending ==
    Cardinality({i \in DOMAIN calls : calls[i].cause # "mount"})

NumLists(cs) == Cardinality({i \in DOMAIN cs : cs[i].op = "list"})

\* Bookkeeping of every step: the list calls the step issued (a list call
\* that fetchDone handles leaves the calls in flight) and the successful
\* mutation whose answer the step handled.
Tally ==
    surplus' = surplus
        + (NumLists(calls') - NumLists(calls))
        + (IF lastAct'.name = "fetchDone" THEN 1 ELSE 0)
        - (IF lastAct'.name \in {"submitDone", "deleteDone"} /\ lastAct'.ok
           THEN 1 ELSE 0)

----------------------------------------------------------------------------
(* The requests the component builds *)

\* supabase.from("tasks").select("*").order("created_at", {ascending: true})
ListCall(cause, id, title, desc) ==
    Call("list", cause, id, title, desc)

\* supabase.from("tasks").update({title, desc}).eq("id", editingId)
UpdateCallSwapped(id, draft) ==
    Call("update", "none", id, draft.desc, draft.title)
UpdateCall(id, draft) ==
    Call("update", "none", id, draft.title, draft.desc)

\* supabase.from("tasks").insert(newTask).single()
InsertCall(draft) ==
    Call("insert", "none", Null, draft.title, draft.desc)

\* supabase.from("tasks").delete().eq("id", id)
DeleteCallOther(id) ==
    Call("delete", "none", id + 1, <<>>, <<>>)
DeleteCall(id) ==
    Call("delete", "none", id, <<>>, <<>>)

----------------------------------------------------------------------------
Init ==
    /\ mounted = FALSE
    /\ tasks = <<>>
    /\ newTask = EmptyDraft
    /\ editingId = Null
    /\ calls = <<>>
    /\ \E first \in FirstIds, seeded \in BOOLEAN :
          /\ db = IF seeded THEN {Task(first, SeedTitle, SeedDesc, 0)} ELSE {}
          /\ nextId = IF seeded THEN first + 1 ELSE first
          /\ clock = IF seeded THEN 1 ELSE 0
    /\ toast = <<>>
    /\ lastAct = Act("init", NoCall, Null, TRUE)
    /\ newest = <<>>
    /\ surplus = 0

----------------------------------------------------------------------------
(* The mount effect: useEffect(() => { fetchData(); }, []) *)

Mount ==
    /\ ~mounted
    /\ mounted' = TRUE
    /\ calls' = Append(calls, ListCall("mount", Null, <<>>, <<>>))
    /\ toast' = <<>>
    /\ lastAct' = Act("mount", NoCall, Null, TRUE)
    /\ UNCHANGED <<newest, tasks, newTask, editingId, db, nextId, clock>>
    /\ Tally

----------------------------------------------------------------------------
(* Form inputs: onChange of the title input and of the description textarea *)

SetTitle(v) ==
    /\ mounted
    /\ newTask' = [newTask EXCEPT !.title = v]
    /\ calls' = Disturb(calls)
    /\ toast' = <<>>
    /\ lastAct' = Act("setTitle", NoCall, Null, TRUE)
    /\ UNCHANGED <<newest, mounted, tasks, editingId, db, nextId, clock>>
    /\ Tally

SetDesc(v) ==
    /\ mounted
    /\ newTask' = [newTask EXCEPT !.desc = v]
    /\ calls' = Disturb(calls)
    /\ toast' = <<>>
    /\ lastAct' = Act("setDesc", NoCall, Null, TRUE)
    /\ UNCHANGED <<newest, mounted, tasks, editingId, db, nextId, clock>>
    /\ Tally

----------------------------------------------------------------------------
(* handleSubmit up to its await *)

WarnFill == Toast("warning", "Please fill in both the title and description!", "")

\* the request a submit with a valid draft sends
SubmitCall(id, draft) ==
    IF TruthyId(id) THEN UpdateCall(id, draft) ELSE InsertCall(draft)

handleSubmit ==
    /\ mounted
    /\ IF ~Valid(newTask)
       THEN /\ toast' = <<WarnFill>>
            /\ calls' = Disturb(calls)
            /\ lastAct' = Act("handleSubmit", NoCall, editingId, FALSE)
       ELSE /\ Pending < MaxPending
            /\ LET call == [SubmitCall(editingId, newTask)
                                EXCEPT !.arg = editingId, !.sub = newTask,
                                       !.alone = (Pending = 0)]
               IN  /\ calls' = Append(Disturb(calls), call)
                   /\ lastAct' = Act("handleSubmit", call, editingId, TRUE)
            /\ toast' = <<>>
    /\ UNCHANGED <<newest, mounted, tasks, newTask, editingId, db, nextId, clock>>
    /\ Tally

----------------------------------------------------------------------------
(* handleDelete up to its await *)

\* `if (!confirmDelete) return;` : the handler goes on exactly when confirmed
ProceedsAlways(confirmDelete) == TRUE
Proceeds(confirmDelete) == confirmDelete

handleDelete(id, confirmDelete) ==
    /\ mounted
    /\ \E k \in DOMAIN tasks : tasks[k].id = id
    /\ IF Proceeds(confirmDelete)
       THEN /\ Pending < MaxPending
            /\ LET call == [DeleteCall(id) EXCEPT !.arg = id, !.alone = (Pending = 0)]
               IN  /\ calls' = Append(Disturb(calls), call)
                   /\ lastAct' = Act("handleDelete", call, id, confirmDelete)
       ELSE /\ calls' = Disturb(calls)
            /\ lastAct' = Act("handleDelete", NoCall, id, confirmDelete)
    /\ toast' = <<>>
    /\ UNCHANGED <<newest, mounted, tasks, newTask, editingId, db, nextId, clock>>
    /\ Tally

----------------------------------------------------------------------------
(* handleEdit, and the onClick of the Cancel Edit button *)

handleEdit(task) ==
    /\ mounted
    /\ \E k \in DOMAIN tasks : tasks[k] = task
    /\ newTask' = [title |-> task.title, desc |-> task.desc]
    /\ editingId' = task.id
    /\ calls' = Disturb(calls)
    /\ toast' = <<>>
    /\ lastAct' = Act("handleEdit", NoCall, task.id, TRUE)
    /\ UNCHANGED <<newest, mounted, tasks, db, nextId, clock>>
    /\ Tally

\* the draft the Cancel Edit button leaves
DraftKept == newTask
DraftAfterCancel == EmptyDraft

\* the button is rendered under `editingId && (...)`
CancelEdit ==
    /\ mounted
    /\ TruthyId(editingId)
    /\ editingId' = Null
    /\ newTask' = DraftAfterCancel
    /\ toast' = <<Toast("info", "Edit cancelled", "")>>
    /\ calls' = Disturb(calls)
    /\ lastAct' = Act("cancelEdit", NoCall, editingId, lastAct.name = "handleEdit")
    /\ UNCHANGED <<newest, mounted, tasks, db, nextId, clock>>
    /\ Tally

----------------------------------------------------------------------------
(* The remote table executing a request.  Each call either fully succeeds  *)
(* or fully fails.                                                         *)

ExecList(i) ==
    /\ calls[i].st = "sent" /\ calls[i].op = "list"
    /\ calls' = [calls EXCEPT ![i].st = "ok", ![i].data = OrderByCreatedAt(db)]
    /\ UNCHANGED <<newest, mounted, tasks, newTask, editingId, db, nextId, clock>>
    /\ toast' = <<>>
    /\ lastAct' = Act("execList", calls[i], calls[i].id, TRUE)
    /\ Tally

ExecInsert(i) ==
    /\ calls[i].st = "sent" /\ calls[i].op = "insert"
    /\ clock < MaxRows
    /\ db' = db \cup {Task(nextId, calls[i].title, calls[i].desc, clock)}
    /\ nextId' = nextId + 1
    /\ clock' = clock + 1
    /\ calls' = [calls EXCEPT ![i].st = "ok", ![i].id = nextId]
    /\ UNCHANGED <<newest, mounted, tasks, newTask, editingId>>
    /\ toast' = <<>>
    /\ lastAct' = Act("execInsert", calls[i], calls[i].id, TRUE)
    /\ Tally

RowOf(id) ==
    IF \E r \in db : r.id = id THEN CHOOSE r \in db : r.id = id ELSE NoRow

ExecUpdate(i) ==
    /\ calls[i].st = "sent" /\ calls[i].op = "update"
    /\ db' = {IF r.id = calls[i].id
              THEN [r EXCEPT !.title = calls[i].title, !.desc = calls[i].desc]
              ELSE r : r \in db}
    /\ calls' = [calls EXCEPT ![i].st = "ok", ![i].pre = RowOf(calls[i].id)]
    /\ UNCHANGED <<newest, mounted, tasks, newTask, editingId, nextId, clock>>
    /\ toast' = <<>>
    /\ lastAct' = Act("execUpdate", calls[i], calls[i].id, TRUE)
    /\ Tally

ExecDelete(i) ==
    /\ calls[i].st = "sent" /\ calls[i].op = "delete"
    /\ db' = {r \in db : r.id # calls[i].id}
    /\ calls' = [calls EXCEPT ![i].st = "ok"]
    /\ UNCHANGED <<newest, mounted, tasks, newTask, editingId, nextId, clock>>
    /\ toast' = <<>>
    /\ lastAct' = Act("execDelete", calls[i], calls[i].id, TRUE)
    /\ Tally

----------------------------------------------------------------------------
(* The handlers after their await *)

\* The answers call i can get now: its result once the table has executed
\* it, or an error (a call that fails has no effect on the table, so the
\* moment it fails is not observable before the answer is delivered).
Answers(i) ==
    IF calls[i].st = "ok" THEN {calls[i]}
    ELSE {[calls[i] EXCEPT !.st = "err", !.msg = m] : m \in Messages}

\* fetchData: `if (error) { toast.error(...); return; } setTasks(data || [])`
TasksAfterFetchNoReturn(call, old) == call.data
TasksAfterFetchMerge(call, old) == IF call.st = "err" THEN old ELSE old \o call.data
TasksAfterFetch(call, old) == IF call.st = "err" THEN old ELSE call.data

\* list call i was answered with res: when that is a success, every list
\* call issued before it (and still in flight) is superseded
Superseded(cs, i, res) ==
    [k \in DOMAIN cs |->
        IF res.st = "ok" /\ k < i /\ cs[k].op = "list"
        THEN [cs[k] EXCEPT !.stale = TRUE] ELSE cs[k]]

\* the calls in flight once the answer to list call i is handled: fetchData
\* issues nothing further, whatever the answer
AfterFetchRetry(cs, i, res) ==
    IF res.st = "err" THEN Append(Remove(cs, i), [cs[i] EXCEPT !.st = "sent"])
    ELSE Remove(cs, i)
AfterFetch(cs, i, res) == Remove(cs, i)

FetchDone(i, res) ==
    /\ calls[i].op = "list" /\ res \in Answers(i)
    /\ tasks' = TasksAfterFetch(res, tasks)
    /\ toast' = IF res.st = "err"
                THEN <<Toast("error", "Error fetching tasks: ", res.msg)>>
                ELSE <<>>
    /\ calls' = AfterFetch(Superseded(calls, i, res), i, res)
    /\ newest' = IF res.st = "ok" /\ ~res.stale THEN res.data ELSE newest
    /\ lastAct' = Act("fetchDone", res, res.id, res.st = "ok")
    /\ UNCHANGED <<mounted, newTask, editingId, db, nextId, clock>>
    /\ Tally

\* handleSubmit: `setNewTask({ title: "", desc: "" })` is reached on success only
DraftAfterSubmitAlways(call, old) == EmptyDraft
DraftAfterSubmitNever(call, old) == old
DraftAfterSubmit(call, old) == IF call.st = "err" THEN old ELSE EmptyDraft

\* the draft is treated as an edit wherever the code tests `editingId`
EditMode == TruthyId(editingId)

\* handleSubmit: `setEditingId(null)` is reached after a successful update only
EditingIdAfterSubmit(call, old) ==
    IF call.st = "ok" /\ call.op = "update" THEN Null ELSE old

\* the fetchData() a handler calls after its mutation succeeded
Refresh(call) ==
    [ListCall(call.op, call.id, call.title, call.desc)
        EXCEPT !.arg = call.arg, !.sub = call.sub, !.pre = call.pre,
               !.quiet = call.quiet, !.alone = call.alone]

\* the calls in flight once the answer to mutation i is handled: the handler
\* returns on error and calls fetchData() otherwise
AfterMutationEager(cs, i, res) == Append(Remove(cs, i), Refresh(res))
AfterMutation(cs, i, res) ==
    IF res.st = "err" THEN Remove(cs, i) ELSE Append(Remove(cs, i), Refresh(res))

SubmitDone(i, res) ==
    /\ calls[i].op \in {"insert", "update"} /\ res \in Answers(i)
    /\ newTask' = DraftAfterSubmit(res, newTask)
    /\ editingId' = EditingIdAfterSubmit(res, editingId)
    /\ toast' = IF res.st = "err"
                THEN <<Toast("error",
                             IF res.op = "update" THEN "Error updating task: "
                                                       ELSE "Error inserting task: ",
                             res.msg)>>
                ELSE <<Toast("success",
                             IF res.op = "update" THEN "Task updated successfully!"
                                                       ELSE "Task added successfully!",
                             "")>>
    /\ calls' = AfterMutation(calls, i, res)
    /\ lastAct' = Act("submitDone", res, res.id, res.st = "ok")
    /\ UNCHANGED <<newest, mounted, tasks, db, nextId, clock>>
    /\ Tally

\* handleDelete never calls setEditingId
EditingIdClearedByDelete(call, old) ==
    IF call.st = "ok" /\ old = call.arg THEN Null ELSE old
EditingIdAfterDelete(call, old) == old

DeleteDone(i, res) ==
    /\ calls[i].op = "delete" /\ res \in Answers(i)
    /\ toast' = IF res.st = "err"
                THEN <<Toast("error", "Error deleting task: ", res.msg)>>
                ELSE <<Toast("info", "Task deleted successfully!", "")>>
    /\ calls' = AfterMutation(calls, i, res)
    /\ lastAct' = Act("deleteDone", res, res.id, res.st = "ok")
    /\ editingId' = EditingIdAfterDelete(res, editingId)
    /\ UNCHANGED <<newest, mounted, tasks, newTask, db, nextId, clock>>
    /\ Tally

----------------------------------------------------------------------------
Ids == 0 .. MaxRows

Next ==
    \/ Mount
    \/ \E v \in Texts : SetTitle(v)
    \/ \E v \in Texts : SetDesc(v)
    \/ handleSubmit
    \/ \E id \in Ids, confirmDelete \in BOOLEAN : handleDelete(id, confirmDelete)
    \/ \E k \in DOMAIN tasks : handleEdit(tasks[k])
    \/ CancelEdit
    \/ \E i \in DOMAIN calls : ExecList(i)
    \/ \E i \in DOMAIN calls : ExecInsert(i)
    \/ \E i \in DOMAIN calls : ExecUpdate(i)
    \/ \E i \in DOMAIN calls : ExecDelete(i)
    \/ \E i \in DOMAIN calls : \E res \in Answers(i) : FetchDone(i, res)
    \/ \E i \in DOMAIN calls : \E res \in Answers(i) : SubmitDone(i, res)
    \/ \E i \in DOMAIN calls : \E res \in Answers(i) : DeleteDone(i, res)

Spec == Init /\ [][Next]_vars

----------------------------------------------------------------------------
TypeOK ==
    /\ mounted \in BOOLEAN
    /\ newTask.title \in Texts \cup {SeedTitle} /\ newTask.desc \in Texts \cup {SeedDesc}
    /\ editingId \in {Null} \cup Ids
    /\ Len(calls) <= MaxPending + 1
    /\ \A r \in db : r.id \in Ids
    /\ Len(toast) <= 1

----------------------------------------------------------------------------
(* Vocabulary of the properties *)

\* empty or whitespace-only
Blank(s) == \A k \in DOMAIN s : s[k] = " "

ValidDraft(d) == ~Blank(d.title) /\ ~Blank(d.desc)

\* the step issued no remote call and nothing reached the table
NoRemoteCall == Sent(calls') = Sent(calls) /\ db' = db

\* the step emitted exactly one notification, on the given channel
OneToast(kind) == Len(toast') = 1 /\ toast'[1].kind = kind

\* the refresh induced by a successful mutation `op` has just completed
\* successfully
RefreshDone(op) ==
    /\ lastAct.name = "fetchDone"
    /\ lastAct.ok
    /\ lastAct.call.cause = op

----------------------------------------------------------------------------
\* C1: a submit whose title or description is empty or whitespace-only, in
\* create mode or edit mode, issues no remote call, emits exactly one
\* warning notification and leaves tasks, the draft fields and editingId
\* unchanged.
C1_InvalidSubmit ==
    [][ (lastAct'.name = "handleSubmit" /\ ~ValidDraft(newTask)) =>
            /\ NoRemoteCall
            /\ OneToast("warning")
            /\ UNCHANGED <<tasks, newTask, editingId>> ]_vars

\* an edit-mode submit was rejected because of a whitespace-only title
C1_Witness ==
    /\ lastAct.name = "handleSubmit"
    /\ newTask.title = <<" ">>
    /\ ~Blank(newTask.desc)
    /\ editingId \notin {Null, 0}
    /\ toast = <<WarnFill>>

----------------------------------------------------------------------------
\* C2 (as stated): for every create-mode submit whose insert succeeds, under
\* any interleaving of other user actions and call completions, when the
\* induced refresh completes successfully tasks contains a task with the
\* submitted title and description and a table-assigned id and created_at,
\* the draft fields are empty and editingId is unset.
InsertPost ==
    /\ \E k \in DOMAIN tasks :
          /\ tasks[k].id = lastAct.call.id
          /\ tasks[k].title = lastAct.call.sub.title
          /\ tasks[k].desc = lastAct.call.sub.desc
          /\ tasks[k].id \in Nat
          /\ tasks[k].created_at \in Nat
    /\ newTask = EmptyDraft
    /\ editingId = Null

C2_AnyInterleaving ==
    (RefreshDone("insert") /\ lastAct.call.arg = Null) => InsertPost

\* C2 (amended): the same, provided the user takes no other action between
\* the submit and the completion of its refresh.
C2_InsertThenRefresh ==
    (RefreshDone("insert") /\ lastAct.call.arg = Null /\ lastAct.call.quiet)
        => InsertPost

\* the refresh of an undisturbed create-mode submit has completed
C2_Witness ==
    /\ RefreshDone("insert")
    /\ lastAct.call.arg = Null
    /\ lastAct.call.quiet
    /\ Len(tasks) >= 1

----------------------------------------------------------------------------
\* C3 (as stated): for every edit-mode submit whose update succeeds, when the
\* induced refresh completes successfully the task whose id was editingId
\* has the submitted title and description and the id and created_at it had
\* before the update, and the update changed no other task.
UpdateFrame ==
    lastAct'.name = "execUpdate" =>
        /\ {r \in db' : r.id # lastAct'.call.id} = {r \in db : r.id # lastAct'.call.id}
        /\ {<<r.id, r.created_at>> : r \in db'} = {<<r.id, r.created_at>> : r \in db}

TargetHasDraft(t, call) ==
    /\ t.title = call.sub.title
    /\ t.desc = call.sub.desc
    /\ call.pre.id = call.arg
    /\ t.created_at = call.pre.created_at

----------------------------------------------------------------------------
\* C4: for every confirmed remove(id) whose delete succeeds, when the induced
\* refresh completes successfully tasks contains no task with that id.
C4_DeletedIsGone ==
    RefreshDone("delete") =>
        \A k \in DOMAIN tasks : tasks[k].id # lastAct.call.arg

\* the refresh after a confirmed, successful delete of a listed task has
\* completed
C4_Witness ==
    /\ RefreshDone("delete")
    /\ lastAct.call.arg \in Nat

----------------------------------------------------------------------------
\* C5: for every task of tasks, whatever id the table assigned to it (0
\* included), after beginEdit(task) a submit with a valid draft calls update
\* with that task's id and never insert; the draft is in edit mode exactly
\* when editingId is present.
C5_EditSubmitUpdates ==
    [][ (lastAct'.name = "handleSubmit" /\ ValidDraft(newTask)) =>
            /\ editingId # Null =>
                  /\ lastAct'.call.op = "update"
                  /\ lastAct'.call.id = editingId
            /\ lastAct'.call.op = "update" <=> editingId # Null ]_vars

----------------------------------------------------------------------------
\* C6: each submit whose draft passes validation issues exactly one remote
\* mutation call, update when editingId is set and insert when it is unset;
\* no submit issues both.
C6_OneMutationPerSubmit ==
    [][ (lastAct'.name = "handleSubmit" /\ ValidDraft(newTask)) =>
            /\ Len(calls') = Len(calls) + 1
            /\ Sent(SubSeq(calls', 1, Len(calls))) = Sent(calls)
            /\ calls'[Len(calls')].op = IF editingId # Null THEN "update" ELSE "insert"
            /\ db' = db ]_vars

----------------------------------------------------------------------------
\* C7: when a list call fails, tasks is left as it was, exactly one error
\* notification is emitted and no further list call is issued.
C7_ListFailure ==
    [][ (lastAct'.name = "fetchDone" /\ ~lastAct'.ok) =>
            /\ tasks' = tasks
            /\ OneToast("error")
            /\ toast'[1].msg = lastAct'.call.msg
            /\ Len(calls') = Len(calls) - 1
            /\ NumLists(calls') = NumLists(calls) - 1 ]_vars

\* a list call failed while tasks were shown
C7_Witness ==
    /\ lastAct.name = "fetchDone"
    /\ ~lastAct.ok
    /\ tasks # <<>>

----------------------------------------------------------------------------
\* C8: when the insert or update of a submit fails, an error is reported,
\* editingId and the draft fields keep their values, tasks is unchanged and
\* no list call is issued.
C8_SubmitFailure ==
    [][ (lastAct'.name = "submitDone" /\ ~lastAct'.ok) =>
            /\ OneToast("error")
            /\ UNCHANGED <<editingId, newTask, tasks>>
            /\ Len(calls') = Len(calls) - 1
            /\ NumLists(calls') = NumLists(calls) ]_vars

\* an update failed while the draft was being edited
C8_Witness ==
    /\ lastAct.name = "submitDone"
    /\ ~lastAct.ok
    /\ lastAct.call.op = "update"
    /\ editingId = lastAct.call.arg
    /\ newTask # EmptyDraft

----------------------------------------------------------------------------
\* C9: remove(id) with the confirmation declined issues no delete and no
\* list call, emits no notification and leaves tasks, the draft and
\* editingId unchanged.
C9_DeclinedDelete ==
    [][ (lastAct'.name = "handleDelete" /\ ~lastAct'.ok) =>
            /\ NoRemoteCall
            /\ toast' = <<>>
            /\ UNCHANGED <<tasks, newTask, editingId>> ]_vars

\* a delete was declined
C9_Witness ==
    /\ lastAct.name = "handleDelete"
    /\ ~lastAct.ok
    /\ \E k \in DOMAIN tasks : tasks[k].id = lastAct.id

----------------------------------------------------------------------------
\* C10: beginEdit and cancelEdit issue no remote call and leave the table
\* and tasks unchanged; cancelEdit ends with empty draft fields and
\* editingId unset and emits one informational notification.
C10_EditCancel ==
    [][ /\ lastAct'.name \in {"handleEdit", "cancelEdit"} =>
              /\ NoRemoteCall
              /\ tasks' = tasks
        /\ lastAct'.name = "cancelEdit" =>
              /\ newTask' = EmptyDraft
              /\ editingId' = Null
              /\ OneToast("info") ]_vars

\* cancelEdit ran directly after beginEdit
C10_Witness ==
    /\ lastAct.name = "cancelEdit"
    /\ lastAct.ok
    /\ tasks # <<>>
    /\ newTask = EmptyDraft

----------------------------------------------------------------------------
\* C11: within one submit or remove invocation the list call of the refresh
\* is issued only when the mutation call of that invocation has been
\* answered with a success; an invocation performs at most two remote
\* calls, the mutation and then the refresh.
C11_RefreshAfterMutation ==
    [][ /\ lastAct'.name \in {"handleSubmit", "handleDelete"} =>
              /\ Len(calls') <= Len(calls) + 1
              /\ NumLists(calls') = NumLists(calls)
        /\ lastAct'.name \in {"submitDone", "deleteDone"} =>
              /\ lastAct'.ok <=> lastAct'.call.st = "ok"
              /\ NumLists(calls') = NumLists(calls) + (IF lastAct'.ok THEN 1 ELSE 0)
              /\ Len(calls') = Len(calls) - 1 + (IF lastAct'.ok THEN 1 ELSE 0)
              /\ lastAct'.ok =>
                    /\ calls'[Len(calls')].op = "list"
                    /\ calls'[Len(calls')].st = "sent"
                    /\ calls'[Len(calls')].cause = lastAct'.call.op
        /\ lastAct'.name = "fetchDone" =>
              Len(calls') = Len(calls) - 1 ]_vars

\* a delete has been answered with a success and its refresh is in flight
C11_Witness ==
    /\ lastAct.name = "deleteDone"
    /\ lastAct.ok
    /\ calls # <<>>
    /\ calls[Len(calls)].op = "list"
    /\ calls[Len(calls)].cause = "delete"
    /\ calls[Len(calls)].st = "sent"

----------------------------------------------------------------------------
\* C12 (as stated): in every reachable state tasks equals the payload of the
\* most recently issued list call that has completed successfully (the
\* empty sequence if none): a response to an earlier-issued list call never
\* replaces the result of a later-issued one.
C12_LatestIssued == tasks = newest

\* C12 (amended): tasks equals the payload of the list call that most
\* recently completed successfully (the empty sequence if none), in whatever
\* order the calls were issued: every successful list completion replaces
\* tasks by its payload, and no other step changes tasks.
C12_LatestCompleted ==
    /\ Init => tasks = <<>>
    /\ [][ IF lastAct'.name = "fetchDone" /\ lastAct'.ok
           THEN tasks' = lastAct'.call.data
           ELSE tasks' = tasks ]_vars

\* the answer to a superseded list call has replaced a newer result
C12_Witness ==
    /\ lastAct.name = "fetchDone"
    /\ lastAct.ok
    /\ lastAct.call.stale
    /\ tasks = lastAct.call.data
    /\ tasks # newest

----------------------------------------------------------------------------
\* C13: list is issued exactly once on mount and exactly once after each
\* successful insert, update or delete, and at no other time: once the
\* component is mounted, the number of list calls issued equals 1 plus the
\* number of successful mutations whose completion has been handled.
C13_ListCount == surplus = IF mounted THEN 1 ELSE 0

\* a failed mutation, a successful mutation and a failed list have all been
\* handled
C13_Witness ==
    /\ mounted
    /\ surplus = 1
    /\ lastAct.name = "fetchDone"
    /\ ~lastAct.ok
    /\ lastAct.call.cause \in {"insert", "update", "delete"}

----------------------------------------------------------------------------
\* C14: every remote call outcome is reported exactly once on the matching
\* channel: each successful insert, update and delete emits one notification
\* on the success channel, and each failed list, insert, update and delete
\* emits one notification on the error channel carrying the backend's
\* message.
C14_MatchingChannel ==
    [][ /\ (lastAct'.name \in {"submitDone", "deleteDone"} /\ lastAct'.ok) =>
              OneToast("success")
        /\ (lastAct'.name \in {"fetchDone", "submitDone", "deleteDone"} /\ ~lastAct'.ok) =>
              /\ OneToast("error")
              /\ toast'[1].msg = lastAct'.call.msg ]_vars

----------------------------------------------------------------------------
\* C15 (as stated): whenever editingId is set it equals the id of a task
\* present in tasks, so an edit-mode submit never issues update for an id
\* absent from the table.
C15_EditingIdListed ==
    editingId # Null => \E k \in DOMAIN tasks : tasks[k].id = editingId

\* C15 (amended): editingId is set only by beginEdit, to the id of a task
\* present in tasks at that moment, and is unset only by cancelEdit and by
\* the completion of a successful update; remove and refresh never change
\* it, so after the task being edited is removed the draft stays in edit
\* mode and an edit-mode submit issues update for an id absent from the
\* table.
C15_EditingIdChanges ==
    [][ editingId' # editingId =>
            \/ /\ lastAct'.name = "handleEdit"
               /\ \E k \in DOMAIN tasks : tasks[k].id = editingId'
            \/ /\ editingId' = Null
               /\ \/ lastAct'.name = "cancelEdit"
                  \/ /\ lastAct'.name = "submitDone"
                     /\ lastAct'.ok
                     /\ lastAct'.call.op = "update" ]_vars

\* the task being edited has been removed and the refresh has completed:
\* the draft is still in edit mode for it
C15_Witness ==
    /\ RefreshDone("delete")
    /\ editingId = lastAct.call.arg
    /\ EditMode
    /\ \A k \in DOMAIN tasks : tasks[k].id # editingId
    /\ \A r \in db : r.id # editingId

----------------------------------------------------------------------------
\* C16: every title and description sent in an insert or update is the draft
\* value validated when submit was invoked, hence neither empty nor
\* whitespace-only; starting from a table whose rows have non-blank title
\* and description, every row keeps them non-blank, also when the draft is
\* edited while a submit is in flight.
C16_SentIsValidated ==
    /\ \A i \in DOMAIN calls :
          calls[i].op \in {"insert", "update"} =>
              /\ calls[i].title = calls[i].sub.title
              /\ calls[i].desc = calls[i].sub.desc
              /\ ValidDraft(calls[i].sub)
    /\ \A r \in db : ~Blank(r.title) /\ ~Blank(r.desc)

\* the table has executed an insert whose draft was made invalid while the
\* call was in flight
C16_Witness ==
    /\ lastAct.name = "execInsert"
    /\ ~lastAct.call.quiet
    /\ ~ValidDraft(newTask)
    /\ \E r \in db : r.title = lastAct.call.sub.title /\ r.desc = lastAct.call.sub.desc

====
